---- MODULE Spec2Model ----
(***************************************************************************)
(* Direct-mail campaign tool: recency/frequency binning of a customer      *)
(* summary (scripts/stratified_sampling.py, bin_customers), stratified     *)
(* sampling of the segmented customers into Test / Control / Holdout       *)
(* (stratified_sample) and the Streamlit session that drives them (app.py).*)
(***************************************************************************)
EXTENDS Integers, Sequences, FiniteSets, TLC

\* ------------------------------------------------------------------ bounds
\* Rows of the frame handed to stratified_sample.
MaxRows == 4
\* Largest population-wide target of one group.
MaxTarget == 4
\* Rows and targets of the runs that are repeated on a reordered frame.
MaxRowsReorder == 4
MaxTargetReorder == 1

\* Customers of the summary handed to bin_customers.
MaxCustomers == 1
\* Edges of a recency edge sequence.
MaxEdges == 3

\* ------------------------------------------------------- program constants
RANDOM_SEED == 42

Groups == {"Test", "Control", "Holdout"}

\* Absent value (a missing session key, an unset local).
None == "None"

\* -------------------------------------------------------------- arithmetic
\* int(round(num / den)) for num >= 0, den > 0.  round() on a binary64 value
\* rounds half to even; for every operand within the bounds of this model
\* the binary64 product T * (c / N) rounds exactly as the rational T*c/N.
RoundHalfEven(num, den) ==
    LET q == num \div den
        r == num % den
    IN  IF 2 * r > den THEN q + 1
        ELSE IF 2 * r < den THEN q
        ELSE IF q % 2 = 0 THEN q ELSE q + 1

\* A mis-normalised share: the segment count used in place of its proportion.
DesiredUnnormalised(target, count, total) == target * count

\* int(round(sample_sizes[g] * proportion)), proportion = count / total.
Desired(target, count, total) == RoundHalfEven(target * count, total)

\* ------------------------------------------------------------------ frames
Range(s) == {s[i] : i \in DOMAIN s}

\* numpy.random.RandomState(seed).permutation(n), 1-based, for the seed the
\* program uses (MT19937 seeded with 42, Fisher-Yates from the last index).
Permutation(seed, n) ==
    CASE n = 0 -> << >>
      [] n = 1 -> <<1>>
      [] n = 2 -> <<2, 1>>
      [] n = 3 -> <<1, 2, 3>>
      [] n = 4 -> <<2, 4, 1, 3>>
      [] n = 5 -> <<2, 5, 3, 1, 4>>
      [] n = 6 -> <<1, 2, 6, 3, 5, 4>>
      [] n = 7 -> <<1, 2, 6, 3, 5, 4, 7>>
      [] n = 8 -> <<2, 6, 1, 8, 3, 5, 4, 7>>

\* df[df["Segment"] == segment]: the rows of the segment, in frame order.
SegmentDataOf(df, segment) == SelectSeq(df, LAMBDA row : row.Segment = segment)

\* df["Segment"].value_counts(): count per distinct segment.
SegmentCount(df, segment) == Len(SegmentDataOf(df, segment))

SegmentsOf(df) == {df[i].Segment : i \in DOMAIN df}

\* The iteration orders value_counts() can give: counts descending; the order
\* among segments of equal count is left to the sort and is not fixed here.
ValueCountOrders(df) ==
    LET S == SegmentsOf(df)
        k == Cardinality(S)
    IN  { o \in [1..k -> S] :
            /\ \A i, j \in 1..k : i # j => o[i] # o[j]
            /\ \A i, j \in 1..k :
                 i < j => SegmentCount(df, o[i]) >= SegmentCount(df, o[j]) }

\* segment_data.sample(frac=1, random_state=seed).reset_index(drop=True):
\* row i of the result is row permutation[i] of the input; the permutation
\* depends on the seed and the number of rows only.
Shuffle(rows, seed) ==
    [i \in 1..Len(rows) |-> rows[Permutation(seed, Len(rows))[i]]]

\* Python slice bounds: negative indexes count from the end, all are clamped.
SliceIndex(i, n) ==
    IF i < 0 THEN (IF i + n < 0 THEN 0 ELSE i + n)
    ELSE (IF i > n THEN n ELSE i)

\* rows.iloc[start:stop]
Iloc(rows, start, stop) ==
    LET a == SliceIndex(start, Len(rows))
        b == SliceIndex(stop, Len(rows))
    IN  IF b <= a THEN << >> ELSE SubSeq(rows, a + 1, b)

\* ------------------------------------------------------- stratified_sample
\* A comparison that is off by one row.
ShortfallOffByOne(len, total_needed) == len + 1 < total_needed

\* if len(segment_data) < total_needed
Shortfall(len, total_needed) == len < total_needed

\* A remainder that forgets the control rows.
RemainderWithoutControl(len, nt, nc) == len - nt

\* n_holdout = len(segment_data) - n_test - n_control
Remainder(len, nt, nc) == len - nt - nc

\* The per-group counts of one segment: proportional, then scaled when the
\* segment is too small, the last group taking the remainder.
Allocation(sizes, count, total) ==
    LET nt == Desired(sizes["Test"], count, total)
        nc == Desired(sizes["Control"], count, total)
        nh == Desired(sizes["Holdout"], count, total)
        total_needed == nt + nc + nh
    IN  IF Shortfall(count, total_needed)
        THEN LET st == RoundHalfEven(nt * count, total_needed)
                 sc == RoundHalfEven(nc * count, total_needed)
             IN  [Test |-> st, Control |-> sc, Holdout |-> Remainder(count, st, sc)]
        ELSE [Test |-> nt, Control |-> nc, Holdout |-> nh]

\* A control slice that starts again at the first row.
ControlSliceFromZero(rows, nt, nc) == Iloc(rows, 0, nc)

\* A control slice whose stop forgets the offset of the test rows.
ControlSliceShortStop(rows, nt, nc) == Iloc(rows, nt, nc)

TestSlice(rows, nt) == Iloc(rows, 0, nt)
ControlSlice(rows, nt, nc) == Iloc(rows, nt, nt + nc)
HoldoutSlice(rows, nt, nc, nh) == Iloc(rows, nt + nc, nt + nc + nh)

\* One pass of the loop over segment_proportions.items(): acc holds the three
\* groups built so far.
LoopBody(df, sizes, seed, segment, acc) ==
    LET count == SegmentCount(df, segment)
        n     == Allocation(sizes, count, Len(df))
        data  == Shuffle(SegmentDataOf(df, segment), seed)
    IN  [ test_group    |-> acc.test_group \o TestSlice(data, n.Test),
          control_group |-> acc.control_group \o ControlSlice(data, n.Test, n.Control),
          holdout_group |-> acc.holdout_group
                              \o HoldoutSlice(data, n.Test, n.Control, n.Holdout),
          n_test |-> n.Test, n_control |-> n.Control, n_holdout |-> n.Holdout ]

EmptyGroups ==
    [ test_group |-> << >>, control_group |-> << >>, holdout_group |-> << >>,
      n_test |-> 0, n_control |-> 0, n_holdout |-> 0 ]

\* group["Group"] = name
Label(rows, name) == [i \in 1..Len(rows) |-> rows[i] @@ [Group |-> name]]

\* pd.concat([test_group, control_group, holdout_group], ignore_index=True)
Combine(acc) ==
    Label(acc.test_group, "Test") \o Label(acc.control_group, "Control")
        \o Label(acc.holdout_group, "Holdout")

RECURSIVE SampleLoop(_, _, _, _, _)
SampleLoop(df, sizes, seed, order, acc) ==
    IF order = << >> THEN acc
    ELSE SampleLoop(df, sizes, seed, Tail(order),
                    LoopBody(df, sizes, seed, Head(order), acc))

\* The whole of stratified_sample, for one iteration order of the segments.
StratifiedSample(df, sizes, seed, order) ==
    Combine(SampleLoop(df, sizes, seed, order, EmptyGroups))

\* ----------------------------------------------------------- bin_customers
\* float("inf"): an edge above every value a customer can have.
Inf == 1000000

\* A missing number (NaN): the recency of a customer without a valid date.
NaN == -1000000

DEFAULT_RECENCY_BINS == <<0, 1, 2, 3, 4, 5, 6, 7, 13, 25, 37>>
DEFAULT_FREQUENCY_BINS == <<1, 2, 3, 4, 5, Inf>>

\* "bins or DEFAULT": None and the empty list both give the default.
OrDefault(bins, default) == IF bins = << >> THEN default ELSE bins

\* pd.cut refuses edges that decrease anywhere ...
Decreases(bins) == \E i \in 1..(Len(bins) - 1) : bins[i] > bins[i + 1]

\* ... and repeated edges, unless there are exactly two edges.
RepeatedEdges(bins) ==
    /\ \E i, j \in DOMAIN bins : i < j /\ bins[i] = bins[j]
    /\ Len(bins) # 2

CutRaises(bins) == Decreases(bins) \/ RepeatedEdges(bins)

\* The search of right=True: the edges strictly below the value.
SearchSortedLeft(bins, v) == Cardinality({i \in DOMAIN bins : bins[i] < v})

\* bins.searchsorted(x, side="right"), what right=False selects: the number
\* of edges at or below the value.
SearchSorted(bins, v) == Cardinality({i \in DOMAIN bins : bins[i] <= v})

\* No bucket: the NaN pd.cut gives a value outside the edges.
NoBucket == 0

\* pd.cut(values, bins=bins, labels=[1 .. len(bins)-1], right=False) for one
\* value; bucket i stands for the label "R<i>" or "F<i>".
CutBucket(bins, v) ==
    IF v = NaN THEN NoBucket
    ELSE LET ids == SearchSorted(bins, v)
         IN  IF ids = 0 \/ ids = Len(bins) THEN NoBucket ELSE ids

\* Bucket columns added, rows without a bucket in either dimension dropped,
\* and the Segment column "F<f>_R<r>", here the pair <<f, r>>.
Binned(df, rbins, fbins) ==
    LET withBuckets ==
            [i \in 1..Len(df) |->
                df[i] @@ [ Recency_Bucket   |-> CutBucket(rbins, df[i].recency),
                           Frequency_Bucket |-> CutBucket(fbins, df[i].frequency) ]]
        kept == SelectSeq(withBuckets,
                          LAMBDA row : /\ row.Recency_Bucket # NoBucket
                                       /\ row.Frequency_Bucket # NoBucket)
    IN  [i \in 1..Len(kept) |->
            kept[i] @@ [Segment |-> <<kept[i].Frequency_Bucket, kept[i].Recency_Bucket>>]]

\* df.to_csv(csv_buffer, index=False): a header and one line per row, of the
\* columns this model carries.
ToCsv(df) ==
    << "customer_id,customer_email,frequency,last_order_date,recency,Recency_Bucket,Frequency_Bucket,Segment" >>
        \o [i \in 1..Len(df) |->
               << df[i].customer_id, df[i].customer_email, df[i].frequency,
                  df[i].last_order_date, df[i].recency, df[i].Recency_Bucket,
                  df[i].Frequency_Bucket, df[i].Segment >>]

\* bin_customers(df, recency_bins, frequency_bins): it raises what pd.cut
\* raises, and otherwise returns the segmented frame and its CSV text.
BinCustomers(df, recency_bins, frequency_bins) ==
    LET rbins == OrDefault(recency_bins, DEFAULT_RECENCY_BINS)
        fbins == OrDefault(frequency_bins, DEFAULT_FREQUENCY_BINS)
    IN  IF CutRaises(rbins) \/ CutRaises(fbins)
        THEN [status |-> "raised", df |-> << >>, csv |-> << >>]
        ELSE [status |-> "returned", df |-> Binned(df, rbins, fbins),
              csv |-> ToCsv(Binned(df, rbins, fbins))]

\* --------------------------------------------------------- data_processing
\* A missing value in the uploaded CSV.
Null == "<missing>"

\* A day column is a year and a month, or text that is no date.
NotADate == [year |-> 0, month |-> 0]
NaT == [year |-> -1, month |-> -1]

\* pd.to_datetime(df['day'], errors='coerce')
ToDatetime(day) == IF day = NotADate THEN NaT ELSE day

\* astype(str): a missing value becomes the text "nan".
AsTypeStr(v) == IF v = Null THEN "nan" ELSE v

\* clean_and_convert_data: convert the columns, then drop the rows that still
\* miss customer_id, customer_email or order_id.
CleanAndConvertData(df) ==
    LET converted ==
            [i \in 1..Len(df) |->
                [ customer_id    |-> AsTypeStr(df[i].customer_id),
                  customer_email |-> AsTypeStr(df[i].customer_email),
                  order_id       |-> AsTypeStr(df[i].order_id),
                  day            |-> ToDatetime(df[i].day) ]]
    IN  SelectSeq(converted,
                  LAMBDA row : /\ row.customer_id # Null
                               /\ row.customer_email # Null
                               /\ row.order_id # Null)

\* datetime.today(), as a year and a month.
Today == [year |-> 2025, month |-> 1]

\* The texts of the model in sort order.
SortedTexts == <<"a@x.com", "b@x.com", "c1", "c2", "c3", "nan">>
Rank(text) == CHOOSE i \in DOMAIN SortedTexts : SortedTexts[i] = text

KeyBefore(a, b) ==
    \/ Rank(a[1]) < Rank(b[1])
    \/ a[1] = b[1] /\ Rank(a[2]) < Rank(b[2])

\* The group keys in the order groupby(sort=True) lists them.
RECURSIVE SortedKeys(_)
SortedKeys(keys) ==
    IF keys = {} THEN << >>
    ELSE LET first == CHOOSE k \in keys : \A other \in keys \ {k} : KeyBefore(k, other)
         IN  <<first>> \o SortedKeys(keys \ {first})

Months(date) == date.year * 12 + date.month

\* ('day', 'max'): the latest valid date of the group, NaT when it has none.
LastOrderDate(rows) ==
    LET valid == {rows[i].day : i \in DOMAIN rows} \ {NaT}
    IN  IF valid = {} THEN NaT
        ELSE CHOOSE d \in valid : \A e \in valid : Months(e) <= Months(d)

\* (current_date.year - year) * 12 + (current_date.month - month)
RecencyOf(last) ==
    IF last = NaT THEN NaN
    ELSE (Today.year - last.year) * 12 + (Today.month - last.month)

\* aggregate_customer_data: one row per (customer_id, customer_email), then
\* the rows whose customer_email is missing are dropped.
AggregateCustomerData(df) ==
    LET keys == { <<df[i].customer_id, df[i].customer_email>> : i \in DOMAIN df }
        order == SortedKeys({k \in keys : k[1] # Null /\ k[2] # Null})
        GroupRows(k) ==
            SelectSeq(df, LAMBDA row : row.customer_id = k[1] /\ row.customer_email = k[2])
        summary ==
            [i \in 1..Len(order) |->
                LET rows == GroupRows(order[i])
                    last == LastOrderDate(rows)
                IN  [ customer_id     |-> order[i][1],
                      customer_email  |-> order[i][2],
                      frequency       |-> Cardinality({rows[j].order_id : j \in DOMAIN rows}),
                      last_order_date |-> last,
                      recency         |-> RecencyOf(last) ]]
    IN  SelectSeq(summary, LAMBDA row : row.customer_email # Null)

\* process_order_history_cached(df)
ProcessOrderHistoryCached(df) == AggregateCustomerData(CleanAndConvertData(df))

\* ------------------------------------------------------------------ app.py
\* float(x.strip()) of a comma-separated field; any other text raises.
NumberTexts == {"0", "1", "2", "3", "inf"}

Float(text) ==
    CASE text = "0" -> 0
      [] text = "1" -> 1
      [] text = "2" -> 2
      [] text = "3" -> 3
      [] text = "inf" -> Inf

ParseRaises(texts) == \E i \in DOMAIN texts : texts[i] \notin NumberTexts

ParseBins(texts) == [i \in DOMAIN texts |-> Float(texts[i])]

\* df[df["recency"] <= max_recency_threshold]; a missing recency compares false.
FilterByRecency(df, threshold) ==
    SelectSeq(df, LAMBDA row : row.recency # NaN /\ row.recency <= threshold)

\* df_filtered.empty
FilteredEmpty(df_filtered) == df_filtered = << >>

\* df_segmented.empty
SegmentedEmpty(df_segmented) == df_segmented = << >>

\* st.session_state[key] = value
Store(state, key, value) == (key :> value) @@ state

\* What the submitted segmentation form does with the session: the outcome
\* shown and the session afterwards.
SegmentationForm(state, recency_texts, frequency_texts, threshold) ==
    IF ParseRaises(recency_texts) \/ ParseRaises(frequency_texts)
    THEN [ outcome |-> "Error processing binning", state |-> state,
           bin_customers |-> "not called" ]
    ELSE LET recency_bins   == ParseBins(recency_texts)
             frequency_bins == ParseBins(frequency_texts)
             df_filtered    == FilterByRecency(state["customer_summary"], threshold)
         IN  IF FilteredEmpty(df_filtered)
             THEN [ outcome |-> "No customers below the threshold", state |-> state,
                    bin_customers |-> "not called" ]
             ELSE LET result == BinCustomers(df_filtered, recency_bins, frequency_bins)
                  IN  IF result.status = "raised"
                      THEN [ outcome |-> "Error processing binning", state |-> state,
                             bin_customers |-> result.status ]
                      ELSE IF SegmentedEmpty(result.df)
                      THEN [ outcome |-> "Segmentation resulted in an empty DataFrame",
                             state |-> state, bin_customers |-> result.status ]
                      ELSE [ outcome |-> "Binning complete",
                             bin_customers |-> result.status,
                             state |->
                               Store(Store(Store(Store(state,
                                   "segmented_df", result.df),
                                   "recency_bins", recency_bins),
                                   "frequency_bins", frequency_bins),
                                   "segmented_csv", result.csv) ]

ErrorOutcomes ==
    { "Error processing binning", "No customers below the threshold",
      "Segmentation resulted in an empty DataFrame" }

\* ------------------------------------------------------------------- state
VARIABLES
    df,             \* the frame stratified_sample was called with
    sample_sizes,   \* group name -> population-wide target
    seed,
    pc,             \* "start", "loop", "done": position in stratified_sample
    todo,           \* segments the loop has still to visit
    segment,        \* loop variable: the segment visited last
    total_needed,   \* n_test + n_control + n_holdout before the adjustment
    n_test, n_control, n_holdout,
    test_group, control_group, holdout_group,
    combined_df,    \* the returned frame
    desired_sum,    \* per group, the pre-adjustment counts summed over segments
    allocated,      \* segment -> the counts used for it
    history,        \* earlier runs: the frame of each and what it returned
    customer_df,    \* the frame bin_customers was called with
    recency_bins, frequency_bins,
    bin_result,     \* what bin_customers did: raised, or the frame and CSV returned
    session_state,  \* st.session_state: key -> value
    event,          \* the handler that ran last, with its inputs and what it showed
    binning_threshold,  \* the threshold of the binning whose frame the session holds
    merged_df           \* the merged upload that was processed last

sampleVars ==
    << df, sample_sizes, seed, pc, todo, segment, total_needed, n_test, n_control,
       n_holdout, test_group, control_group, holdout_group, combined_df,
       desired_sum, allocated, history >>

\* What a handler that did not bin leaves as the last event.
Shown(kind, outcome) ==
    [ kind |-> kind, outcome |-> outcome, invalid_edges |-> FALSE,
      bin_customers |-> "not called" ]

binVars == << customer_df, recency_bins, frequency_bins, bin_result >>

appVars == << session_state, event, binning_threshold, merged_df >>

vars == << sampleVars, binVars, appVars >>

NotCalled == [status |-> "not called", df |-> << >>, csv |-> << >>]

\* No call of bin_customers is in progress.
BinIdle ==
    /\ customer_df = << >>
    /\ recency_bins = << >>
    /\ frequency_bins = << >>
    /\ bin_result = NotCalled

\* No session is open.
AppIdle ==
    /\ session_state = << >>
    /\ event = Shown("none", "")
    /\ binning_threshold = 0
    /\ merged_df = << >>

\* No call of stratified_sample is in progress.
SampleIdle ==
    /\ df = << >>
    /\ sample_sizes = [g \in Groups |-> 0]
    /\ seed = RANDOM_SEED
    /\ pc = "idle"
    /\ todo = << >>
    /\ segment = << >>
    /\ total_needed = 0
    /\ n_test = 0 /\ n_control = 0 /\ n_holdout = 0
    /\ test_group = << >> /\ control_group = << >> /\ holdout_group = << >>
    /\ combined_df = << >>
    /\ desired_sum = [g \in Groups |-> 0]
    /\ allocated = << >>
    /\ history = << >>

\* Segments are pairs <<frequency bucket, recency bucket>>, standing for the
\* label "F<f>_R<r>" (one label per pair).
SampleSegments == { <<1, 1>>, <<1, 2>>, <<2, 1>> }
ReorderSegments == { <<1, 1>>, <<1, 2>> }

\* The loop variable before the first iteration.
NoSegment == << >>

\* Frames of at most maxRows rows; a row is known by its id.
Frames(maxRows, segments) ==
    UNION { { [i \in 1..n |-> [id |-> i, Segment |-> f[i]]] : f \in [1..n -> segments] }
            : n \in 0..maxRows }

ZeroSizes == [g \in Groups |-> 0]

\* The locals of a call that has not started its loop.
Entry ==
    /\ pc = "start"
    /\ todo = << >>
    /\ segment = NoSegment
    /\ total_needed = 0
    /\ n_test = 0 /\ n_control = 0 /\ n_holdout = 0
    /\ test_group = << >> /\ control_group = << >> /\ holdout_group = << >>
    /\ combined_df = << >>
    /\ desired_sum = ZeroSizes
    /\ allocated = << >>

InitSample(maxRows, maxTarget, segments) ==
    /\ df \in Frames(maxRows, segments)
    /\ sample_sizes \in [Groups -> 0..maxTarget]
    /\ seed = RANDOM_SEED
    /\ Entry
    /\ history = << >>
    /\ BinIdle
    /\ AppIdle

Init == InitSample(MaxRows, MaxTarget, SampleSegments)

InitReorder == InitSample(MaxRowsReorder, MaxTargetReorder, ReorderSegments)

\* np.random.seed(seed); empty groups; segment_counts and segment_proportions.
Begin ==
    /\ pc = "start"
    /\ \E order \in ValueCountOrders(df) : todo' = order
    /\ pc' = "loop"
    /\ UNCHANGED << df, sample_sizes, seed, segment, total_needed, n_test, n_control,
                    n_holdout, test_group, control_group, holdout_group, combined_df,
                    desired_sum, allocated, history, binVars, appVars >>

\* One iteration of "for segment, proportion in segment_proportions.items()".
LoopStep ==
    /\ pc = "loop"
    /\ todo # << >>
    /\ LET s     == Head(todo)
           count == SegmentCount(df, s)
           acc   == [ test_group |-> test_group, control_group |-> control_group,
                      holdout_group |-> holdout_group,
                      n_test |-> n_test, n_control |-> n_control,
                      n_holdout |-> n_holdout ]
           new   == LoopBody(df, sample_sizes, seed, s, acc)
           want  == [g \in Groups |-> Desired(sample_sizes[g], count, Len(df))]
       IN  /\ segment' = s
           /\ total_needed' = want["Test"] + want["Control"] + want["Holdout"]
           /\ n_test' = new.n_test
           /\ n_control' = new.n_control
           /\ n_holdout' = new.n_holdout
           /\ test_group' = new.test_group
           /\ control_group' = new.control_group
           /\ holdout_group' = new.holdout_group
           /\ desired_sum' = [g \in Groups |-> desired_sum[g] + want[g]]
           /\ allocated' = allocated @@
                  (s :> [Test |-> new.n_test, Control |-> new.n_control,
                         Holdout |-> new.n_holdout])
    /\ todo' = Tail(todo)
    /\ UNCHANGED << df, sample_sizes, seed, pc, combined_df, history, binVars, appVars >>

\* Label the groups, concatenate them and return.
Return ==
    /\ pc = "loop"
    /\ todo = << >>
    /\ combined_df' = Combine([ test_group |-> test_group,
                                control_group |-> control_group,
                                holdout_group |-> holdout_group ])
    /\ pc' = "done"
    /\ UNCHANGED << df, sample_sizes, seed, todo, segment, total_needed, n_test,
                    n_control, n_holdout, test_group, control_group, holdout_group,
                    desired_sum, allocated, history, binVars, appVars >>

\* The caller runs stratified_sample once more, with the same targets and
\* seed, on the same rows presented in another order.
CallAgainReordered ==
    /\ pc = "done"
    /\ history = << >>
    /\ \E p \in [1..Len(df) -> 1..Len(df)] :
          /\ \A i, j \in 1..Len(df) : i # j => p[i] # p[j]
          /\ df' = [i \in 1..Len(df) |-> df[p[i]]]
    /\ history' = << [df |-> df, combined_df |-> combined_df] >>
    /\ pc' = "start"
    /\ todo' = << >>
    /\ segment' = NoSegment
    /\ total_needed' = 0
    /\ n_test' = 0 /\ n_control' = 0 /\ n_holdout' = 0
    /\ test_group' = << >> /\ control_group' = << >> /\ holdout_group' = << >>
    /\ combined_df' = << >>
    /\ desired_sum' = ZeroSizes
    /\ allocated' = << >>
    /\ UNCHANGED << sample_sizes, seed, binVars, appVars >>

Next == Begin \/ LoopStep \/ Return

Spec == Init /\ [][Next]_vars

NextReorder == Begin \/ LoopStep \/ Return \/ CallAgainReordered

SpecReorder == InitReorder /\ [][NextReorder]_vars

\* ------------------------------------------------ calls of bin_customers
CustomerIds == <<"c1", "c2", "c3">>

\* Recency in months: missing, a future-dated order, and recent ones.
RecencyValues == {NaN, -1, 0, 1, 2}
FrequencyValues == {1, 2}
EdgeValues == {0, 1, 2, Inf}

\* The month that lies the given number of months before today.
DateOfRecency(r) ==
    IF r = NaN THEN NaT
    ELSE LET m == Months(Today) - r - 1
         IN  [year |-> m \div 12, month |-> (m % 12) + 1]

\* Customer summaries of at most maxCustomers rows.
Summaries(maxCustomers) ==
    UNION { { [i \in 1..n |->
                 [ customer_id     |-> CustomerIds[i],
                   customer_email  |-> "a@x.com",
                   frequency       |-> f[i],
                   last_order_date |-> DateOfRecency(r[i]),
                   recency         |-> r[i] ]]
              : r \in [1..n -> RecencyValues], f \in [1..n -> FrequencyValues] }
            : n \in 0..maxCustomers }

\* Edge sequences of at most maxEdges edges, in any order, repeats included.
EdgeSequences(maxEdges) == UNION { [1..n -> EdgeValues] : n \in 0..maxEdges }

FrequencyEdgeChoices ==
    { << >>, <<1>>, <<1, 1>>, <<1, 2>>, <<2, 1>>, <<1, 2, Inf>>, <<1, 2, 2>>, <<2, Inf>> }

InitBin ==
    /\ customer_df \in Summaries(MaxCustomers)
    /\ recency_bins \in EdgeSequences(MaxEdges)
    /\ frequency_bins \in FrequencyEdgeChoices
    /\ bin_result = NotCalled
    /\ SampleIdle
    /\ AppIdle

\* bin_customers(customer_df, recency_bins, frequency_bins) runs to its end.
CallBinCustomers ==
    /\ bin_result = NotCalled
    /\ bin_result' = BinCustomers(customer_df, recency_bins, frequency_bins)
    /\ UNCHANGED << customer_df, recency_bins, frequency_bins, sampleVars, appVars >>

NextBin == CallBinCustomers

SpecBin == InitBin /\ [][NextBin]_vars

\* --------------------------------------------------------- the app session
Order(customer, email, order, year, month) ==
    [ customer_id |-> customer, customer_email |-> email, order_id |-> order,
      day |-> [year |-> year, month |-> month] ]

\* Uploaded order histories (the merged CSV files).
Uploads ==
    { << Order("c1", "a@x.com", "o1", 2024, 12), Order("c1", "a@x.com", "o2", 2025, 1),
         Order("c2", "b@x.com", "o3", 2024, 11) >>,
      << Order("c2", "b@x.com", "o4", 2025, 1), Order("c3", Null, "o5", 2024, 12),
         Order("c3", Null, "o5", 2024, 12) >>,
      << [ customer_id |-> "c1", customer_email |-> "a@x.com", order_id |-> "o6",
           day |-> NotADate ] >> }

RecencyTexts ==
    { <<"0", "1", "2", "3">>, <<"0", "3">>, <<"1", "1">>, <<"3", "0">>, <<"0">>,
      <<"0", "1", "1">>, <<"0", "x">> }

FrequencyTexts ==
    { <<"1", "2", "inf">>, <<"1", "inf">>, <<"2", "2">>, <<"inf", "1">>, <<"1">>,
      <<"">> }

Thresholds == {1, 36}

\* number_input(min_value=1000 / 1000 / 2000)
TestSizes == {1000, 1100}
ControlSizes == {1000}
HoldoutSizes == {2000, 2500}

InitApp ==
    /\ AppIdle
    /\ SampleIdle
    /\ BinIdle

\* "Process Order History" pressed with uploaded files that have the required
\* columns: the summary is computed and stored.
ProcessOrderHistory ==
    /\ \E upload \in Uploads :
          /\ merged_df' = upload
          /\ session_state' =
                Store(session_state, "customer_summary", ProcessOrderHistoryCached(upload))
          /\ event' = Shown("process", "Processing complete")
    /\ UNCHANGED << binning_threshold, sampleVars, binVars >>

\* An edge sequence the configuration rules exclude: fewer than two edges, or
\* edges that do not strictly increase.
InvalidEdges(bins) ==
    \/ Len(bins) < 2
    \/ \E i \in 1..(Len(bins) - 1) : bins[i] >= bins[i + 1]

\* The submitted fields are numbers, and either edge sequence is invalid.
InvalidSubmission(recency_texts, frequency_texts) ==
    /\ ~ParseRaises(recency_texts)
    /\ ~ParseRaises(frequency_texts)
    /\ InvalidEdges(ParseBins(recency_texts)) \/ InvalidEdges(ParseBins(frequency_texts))

\* "Apply Binning" submitted.
ApplyBinning ==
    /\ "customer_summary" \in DOMAIN session_state
    /\ \E recency_texts \in RecencyTexts, frequency_texts \in FrequencyTexts,
          threshold \in Thresholds :
          LET done == SegmentationForm(session_state, recency_texts, frequency_texts,
                                       threshold)
          IN  /\ session_state' = done.state
              /\ event' = [ kind |-> "binning", outcome |-> done.outcome,
                            invalid_edges |->
                                InvalidSubmission(recency_texts, frequency_texts),
                            bin_customers |-> done.bin_customers ]
              /\ binning_threshold' =
                    IF done.outcome = "Binning complete" THEN threshold
                    ELSE binning_threshold
    /\ UNCHANGED << merged_df, sampleVars, binVars >>

\* "Run Sampling" submitted.
RunSampling ==
    /\ "customer_summary" \in DOMAIN session_state
    /\ \E test_size \in TestSizes, control_size \in ControlSizes,
          holdout_size \in HoldoutSizes :
          IF "segmented_df" \notin DOMAIN session_state
          THEN /\ event' = Shown("sampling", "Please apply segmentation before sampling")
               /\ UNCHANGED session_state
          ELSE \E order \in ValueCountOrders(session_state["segmented_df"]) :
                  /\ session_state' =
                        Store(session_state, "sampled_df",
                              StratifiedSample(session_state["segmented_df"],
                                               [ Test |-> test_size,
                                                 Control |-> control_size,
                                                 Holdout |-> holdout_size ],
                                               RANDOM_SEED, order))
                  /\ event' = Shown("sampling", "Sampling complete")
    /\ UNCHANGED << binning_threshold, merged_df, sampleVars, binVars >>

\* "Reset App": st.session_state.clear()
ResetApp ==
    /\ session_state' = << >>
    /\ event' = Shown("reset", "Reset")
    /\ UNCHANGED << binning_threshold, merged_df, sampleVars, binVars >>

NextApp == ProcessOrderHistory \/ ApplyBinning \/ RunSampling \/ ResetApp

SpecApp == InitApp /\ [][NextApp]_vars

\* ------------------------------------------------- claims: stratified_sample
\* The rows of a segment as the frame holds them (frame order).
RowsOfSegment(frame, s) == SelectSeq(frame, LAMBDA row : row.Segment = s)

\* How often the row with this id occurs in a group.
Occurrences(rows, id) == Cardinality({i \in DOMAIN rows : rows[i].id = id})

\* How often the row occurs in the three groups together.
TimesAssigned(id) ==
    Occurrences(test_group, id) + Occurrences(control_group, id)
        + Occurrences(holdout_group, id)

\* Rows of the segment the three groups hold, counted with repetition.
AssignedRows(s) ==
    Len(RowsOfSegment(test_group, s)) + Len(RowsOfSegment(control_group, s))
        + Len(RowsOfSegment(holdout_group, s))

\* Segments the loop has been through.
Visited == DOMAIN allocated

\* The loop has just handled `segment`.
InSegment == pc = "loop" /\ segment # NoSegment

\* C1: the per-group counts finally used for a segment (n_test, n_control,
\* n_holdout, after the shortfall adjustment when it applies) are all >= 0.
C1_CountsNonNegative ==
    InSegment => n_test >= 0 /\ n_control >= 0 /\ n_holdout >= 0

\* C2: for every segment S the loop has handled, the counts used for S sum to
\* at most |S| and the rows of S assigned to Test, Control and Holdout
\* together number at most |S|, with and without a shortfall.
C2_AssignedAtMostSegment ==
    \A s \in Visited :
        /\ allocated[s].Test + allocated[s].Control + allocated[s].Holdout
              <= Len(RowsOfSegment(df, s))
        /\ AssignedRows(s) <= Len(RowsOfSegment(df, s))

\* The desired counts of a segment before the adjustment, summed.
DesiredTotal(s) ==
    LET count == Len(RowsOfSegment(df, s))
    IN  Desired(sample_sizes["Test"], count, Len(df))
          + Desired(sample_sizes["Control"], count, Len(df))
          + Desired(sample_sizes["Holdout"], count, Len(df))

\* C2 witness: the loop has handled a segment in shortfall, all of whose rows
\* were assigned, and a segment that was not, with rows left unassigned.
C2_Witness ==
    /\ \E s \in Visited :
          /\ DesiredTotal(s) > Len(RowsOfSegment(df, s))
          /\ AssignedRows(s) = Len(RowsOfSegment(df, s))
    /\ \E s \in Visited :
          /\ DesiredTotal(s) <= Len(RowsOfSegment(df, s))
          /\ AssignedRows(s) < Len(RowsOfSegment(df, s))

\* C5: when the segment just handled is in shortfall (the desired counts sum
\* to more than its rows), the counts used sum to exactly |segment| and every
\* row of the segment is in exactly one group.
C5_ShortfallExhaustsSegment ==
    (InSegment /\ total_needed > Len(RowsOfSegment(df, segment))) =>
        /\ n_test + n_control + n_holdout = Len(RowsOfSegment(df, segment))
        /\ AssignedRows(segment) = Len(RowsOfSegment(df, segment))
        /\ \A row \in Range(RowsOfSegment(df, segment)) : TimesAssigned(row.id) = 1

\* C5 witness: a shortfall segment of several rows whose rows went to more
\* than one group.
C5_Witness ==
    /\ InSegment
    /\ total_needed > Len(RowsOfSegment(df, segment))
    /\ Len(RowsOfSegment(df, segment)) >= 3
    /\ n_test > 0 /\ n_control > 0 /\ n_holdout > 0

\* C6: in the returned frame every input row occurs at most once (so it has
\* one group label), and of each segment exactly the shuffled rows within the
\* allocated counts are there: the rows beyond them are left out.
C6_GroupsDisjoint ==
    pc = "done" =>
        /\ \A i, j \in DOMAIN combined_df :
              i # j => combined_df[i].id # combined_df[j].id
        /\ \A row \in Range(combined_df) : row.Group \in Groups
        /\ \A s \in SegmentsOf(df) :
              LET data == Shuffle(RowsOfSegment(df, s), seed)
                  used == allocated[s].Test + allocated[s].Control
                             + allocated[s].Holdout
              IN  \A i \in DOMAIN data :
                     (\E k \in DOMAIN combined_df : combined_df[k].id = data[i].id)
                        <=> i <= used

\* C6 witness: a finished run that labelled rows of all three groups and left
\* a row out.
C6_Witness ==
    /\ pc = "done"
    /\ \A g \in Groups : \E k \in DOMAIN combined_df : combined_df[k].Group = g
    /\ Len(combined_df) < Len(df)

\* Rows the returned frame labels with the group.
Realized(g) == Cardinality({k \in DOMAIN combined_df : combined_df[k].Group = g})

TargetsFit ==
    sample_sizes["Test"] + sample_sizes["Control"] + sample_sizes["Holdout"] <= Len(df)

\* C7 as stated: when the targets sum to at most the population, no group's
\* realized size is below its target.
C7_NoUndershootWhenTargetsFit ==
    (pc = "done" /\ TargetsFit) => \A g \in Groups : Realized(g) >= sample_sizes[g]

\* C7 amended: when the targets sum to at most the population, a group's
\* realized size is below its target by at most one row per segment, and not
\* at all when the population is a single segment.
C7_UndershootAtMostSegments ==
    (pc = "done" /\ TargetsFit) =>
        \A g \in Groups :
            /\ sample_sizes[g] - Realized(g) <= Cardinality(SegmentsOf(df))
            /\ Cardinality(SegmentsOf(df)) = 1 => Realized(g) = sample_sizes[g]

\* C7 witness: the targets fit the population and a group still ends below
\* its target.
C7_Witness ==
    /\ pc = "done"
    /\ TargetsFit
    /\ \E g \in Groups : Realized(g) < sample_sizes[g]

\* C8: over k >= 1 segments, the pre-shortfall desired counts of a group sum
\* to its target within k - 1.
C8_DesiredSumWithinSegments ==
    (pc = "done" /\ Cardinality(SegmentsOf(df)) >= 1) =>
        \A g \in Groups :
            /\ desired_sum[g] - sample_sizes[g] <= Cardinality(SegmentsOf(df)) - 1
            /\ sample_sizes[g] - desired_sum[g] <= Cardinality(SegmentsOf(df)) - 1

\* C8 witness: a run over several segments whose desired counts of a group do
\* not sum to the target.
C8_Witness ==
    /\ pc = "done"
    /\ Cardinality(SegmentsOf(df)) >= 2
    /\ \E g \in Groups : desired_sum[g] # sample_sizes[g]

\* The group the returned frame gives the row, or None for a row left out.
GroupOf(frame, id) ==
    IF \E k \in DOMAIN frame : frame[k].id = id
    THEN (CHOOSE row \in Range(frame) : row.id = id).Group
    ELSE None

SameAssignment(a, b) ==
    \A id \in {df[i].id : i \in DOMAIN df} : GroupOf(a, id) = GroupOf(b, id)

\* A second run, on the rows of the first in some order, has returned.
SecondRunDone == pc = "done" /\ history # << >>

\* C3: a second run with the same seed on the same rows in another order
\* gives every customer the group of the first run (or leaves the same
\* customers out).
C3_SameGroupsInAnyRowOrder ==
    SecondRunDone => SameAssignment(combined_df, history[1].combined_df)

\* What the shuffle does guarantee (C3 restricted): the second run gives every
\* customer the group of the first run when each segment's rows come in the
\* same relative order as before, however the segments are interleaved.
C3_SameGroupsInSameSegmentOrder ==
    (SecondRunDone /\ \A s \in SegmentsOf(df) :
                         RowsOfSegment(df, s) = RowsOfSegment(history[1].df, s))
        => SameAssignment(combined_df, history[1].combined_df)

\* A case of the restricted C3: the second run saw the rows in another order,
\* each segment's rows in the same relative order, and labelled some rows.
C3_Witness ==
    /\ SecondRunDone
    /\ df # history[1].df
    /\ \A s \in SegmentsOf(df) : RowsOfSegment(df, s) = RowsOfSegment(history[1].df, s)
    /\ \E s \in SegmentsOf(df) : Len(RowsOfSegment(df, s)) >= 2
    /\ combined_df # << >>

\* ----------------------------------------------------- claims: bin_customers
StrictlyIncreasing(bins) == \A i \in 1..(Len(bins) - 1) : bins[i] < bins[i + 1]

\* The value lies in the half-open interval of bucket i: from edge i up to,
\* and not including, edge i + 1.
InBucket(bins, v, i) == v # NaN /\ bins[i] <= v /\ v < bins[i + 1]

HasBucket(bins, v) == \E i \in 1..(Len(bins) - 1) : InBucket(bins, v, i)

\* The value is missing, below the first edge, or at or above the last.
OutsideEdges(bins, v) == v = NaN \/ v < bins[1] \/ v >= bins[Len(bins)]

\* The edges bin_customers worked with.
RecencyEdges == OrDefault(recency_bins, DEFAULT_RECENCY_BINS)
FrequencyEdges == OrDefault(frequency_bins, DEFAULT_FREQUENCY_BINS)

\* The rows the segmented frame has for the customer.
SegmentedRowsOf(customer) ==
    {i \in DOMAIN bin_result.df : bin_result.df[i].customer_id = customer.customer_id}

\* C4: with strictly increasing edges in both dimensions, a customer is in
\* the segmented frame at most once, with recency bucket i iff
\* edges[i-1] <= recency < edges[i] and frequency bucket j likewise, and is
\* left out iff a value is below the first or at or above the last edge (or
\* missing) in either dimension.
C4_HalfOpenBuckets ==
    ( /\ bin_result.status = "returned"
      /\ StrictlyIncreasing(RecencyEdges)
      /\ StrictlyIncreasing(FrequencyEdges) ) =>
        \A c \in Range(customer_df) :
            /\ Cardinality(SegmentedRowsOf(c)) <= 1
            /\ (SegmentedRowsOf(c) # {}) <=>
                  (HasBucket(RecencyEdges, c.recency)
                     /\ HasBucket(FrequencyEdges, c.frequency))
            /\ (SegmentedRowsOf(c) = {}) <=>
                  (OutsideEdges(RecencyEdges, c.recency)
                     \/ OutsideEdges(FrequencyEdges, c.frequency))
            /\ \A k \in SegmentedRowsOf(c) :
                  LET row == bin_result.df[k]
                  IN  /\ \A i \in 1..(Len(RecencyEdges) - 1) :
                            row.Recency_Bucket = i <=> InBucket(RecencyEdges, c.recency, i)
                      /\ \A j \in 1..(Len(FrequencyEdges) - 1) :
                            row.Frequency_Bucket = j
                               <=> InBucket(FrequencyEdges, c.frequency, j)
                      /\ row.Segment = <<row.Frequency_Bucket, row.Recency_Bucket>>

\* C4 witness: a customer whose recency equals an inner edge is in the
\* segmented frame, in the bucket that starts at that edge.
C4_Witness ==
    /\ bin_result.status = "returned"
    /\ StrictlyIncreasing(RecencyEdges)
    /\ StrictlyIncreasing(FrequencyEdges)
    /\ Len(RecencyEdges) = 3
    /\ \E k \in DOMAIN bin_result.df :
          /\ bin_result.df[k].recency = RecencyEdges[2]
          /\ bin_result.df[k].Recency_Bucket = 2

\* C9: when either edge sequence handed to bin_customers has fewer than two
\* edges or does not strictly increase, the call of bin_customers ends in an
\* error (and so produces no segmented table).
C9_InvalidEdgesRaise ==
    ( /\ event.kind = "binning"
      /\ event.invalid_edges
      /\ event.bin_customers # "not called" ) =>
        event.bin_customers = "raised"

\* The part of C9 the form keeps: when it is submitted with numeric edges of
\* which either sequence has fewer than two edges or does not strictly
\* increase, the form shows an error and leaves the session as it was: no
\* segmented frame is stored for that configuration.
C9_InvalidSubmissionRejected ==
    [][ (event'.kind = "binning" /\ event'.invalid_edges) =>
            (event'.outcome \in ErrorOutcomes /\ session_state' = session_state) ]_vars

\* A case of it: a submission with invalid edges that bin_customers did not
\* refuse (it returned an empty frame) was rejected by the form, while the
\* session holds the frame of an earlier binning.
C9_Witness ==
    /\ event.kind = "binning"
    /\ event.invalid_edges
    /\ event.bin_customers = "returned"
    /\ event.outcome = "Segmentation resulted in an empty DataFrame"
    /\ "segmented_df" \in DOMAIN session_state

\* --------------------------------------------------------- claims: session
\* C10: the segmented frame the session holds is the one derived from the
\* customer summary the session holds now, with the edges and threshold of
\* the binning that was accepted last.
C10_SegmentedFrameIsCurrent ==
    "segmented_df" \in DOMAIN session_state =>
        session_state["segmented_df"] =
            BinCustomers(FilterByRecency(session_state["customer_summary"],
                                         binning_threshold),
                         session_state["recency_bins"],
                         session_state["frequency_bins"]).df

\* ------------------------------------------------- claims: customer summary
\* The customer ids of the raw order rows whose email is missing.
CustomersWithoutEmail ==
    {merged_df[i].customer_id : i \in {j \in DOMAIN merged_df :
                                          merged_df[j].customer_email = Null}}

\* C11: after clean_and_convert_data and aggregate_customer_data, the customer
\* summary has no row for a customer whose email is missing in the raw order
\* rows.
C11_NoCustomerWithoutEmail ==
    "customer_summary" \in DOMAIN session_state =>
        \A row \in Range(session_state["customer_summary"]) :
            row.customer_id \notin CustomersWithoutEmail

====
